---- MODULE Spec2Model ----
(***************************************************************************)
(* A model of streamlit_app.py: the PM2.5 next-day predictor.              *)
(*                                                                         *)
(* One run of the script body after a press of "Fetch data & predict next  *)
(* day" is a request.  A request is a sequence of steps (pc), one per call *)
(* the handler makes: the two geocoding calls, the two data calls, the     *)
(* feature builder, the cached model load, the assembly of the forecast    *)
(* row, the column selection with model.predict, and the rendering.  The   *)
(* answers of the HTTP services, the daily table and the model artifact on *)
(* disk are inputs.                                                        *)
(***************************************************************************)
EXTENDS Integers, Sequences, FiniteSets, TLC

VARIABLES
    pc,          \* position of the script within the current request
    requests,    \* button presses so far in this process
    artifact,    \* model.joblib on disk: NoArtifact or its 'features' list
    cache,       \* st.cache_resource entry of load_model: NoModel or the pair
    loads,       \* the requests in which a joblib.load call returned
    loadCalls,   \* joblib.load calls made
    httpLog,     \* requests.get calls of the current request, in order,
                 \* each with the endpoint, the coordinates and the answer
    pm_df,       \* rows of fetch_pm25's result (0: pd.DataFrame() / empty)
    met_df,      \* rows of fetch_weather's result
    df_feats,    \* the daily feature table
    feature_cols,\* the feature list load_model returned to this request
    X_pred,      \* the assembled row (a record), or NoRow
    X_pred_df,   \* the frame given to model.predict, or NoFrame
    calls,       \* the calls the handler has made in this request, in order
    coords,      \* the local (lat, lon) of the fetcher that is running
    msgs,        \* what the request has rendered (st.error, st.warning, ...)
    raised,      \* the exception that ended the request, or "none"
    outcome      \* "none" while running; how the request ended

vars == <<pc, requests, artifact, cache, loads, loadCalls, httpLog, pm_df,
          met_df, df_feats, feature_cols, X_pred, X_pred_df, calls, coords,
          msgs, raised, outcome>>

procVars == <<artifact, cache, loads, loadCalls>>
fetchVars == <<httpLog, coords, pm_df, met_df>>
predVars == <<df_feats, feature_cols, X_pred, X_pred_df>>

(***************************************************************************)
(* Bounds of the model.                                                    *)
(***************************************************************************)
MaxRequests == 3
MaxRows == 11
YearSpan == 1

(***************************************************************************)
(* Program constants.                                                      *)
(***************************************************************************)
MinDailyRows == 10

\* The keys X_pred is given, in assignment order.
AssembledCols ==
    <<"temperature", "relativehumidity", "windspeed", "pm25_lag_1", "pm25_lag_2",
      "pm25_lag_3", "pm25_lag_7", "pm25_ma_3", "dayofyear">>

Range(s) == {s[i] : i \in 1..Len(s)}

NoCoords == <<>>
NoArtifact == <<"<missing>">>
NoModel == [model |-> "<unset>", features |-> <<>>]
NoRow == [none |-> TRUE]
NoFrame == <<"<none>">>

(***************************************************************************)
(* The calendar: pandas' Timestamp arithmetic on calendar dates.           *)
(***************************************************************************)
IsLeap(y) == (y % 4 = 0) /\ ((y % 100 # 0) \/ (y % 400 = 0))

DaysInMonth(y, m) ==
    IF m = 2 THEN (IF IsLeap(y) THEN 29 ELSE 28)
    ELSE IF m \in {4, 6, 9, 11} THEN 30 ELSE 31

\* Days before Jan 1 of year y (proleptic Gregorian ordinal).
DaysBeforeYear(y) ==
    (y - 1) * 365 + ((y - 1) \div 4) - ((y - 1) \div 100) + ((y - 1) \div 400)

RECURSIVE DaysBeforeMonth(_, _)
DaysBeforeMonth(y, m) ==
    IF m = 1 THEN 0 ELSE DaysBeforeMonth(y, m - 1) + DaysInMonth(y, m - 1)

\* pd.to_datetime of a calendar date <<y, m, d>>: a day count.
ToDatetime(ts) == DaysBeforeYear(ts[1]) + DaysBeforeMonth(ts[1], ts[2]) + ts[3]

Years == (2023 .. (2023 + YearSpan)) \cup {2100}

YearOfOrdinal(n) ==
    CHOOSE y \in 2022 .. 2102 : DaysBeforeYear(y) < n /\ n <= DaysBeforeYear(y + 1)

\* Timestamp.dayofyear
DayOfYear(n) == n - DaysBeforeYear(YearOfOrdinal(n))

DateOfOrdinal(n) ==
    LET y == YearOfOrdinal(n)
        doy == n - DaysBeforeYear(y)
        m == CHOOSE mm \in 1..12 :
                 DaysBeforeMonth(y, mm) < doy /\ doy <= DaysBeforeMonth(y, mm) + DaysInMonth(y, mm)
    IN <<y, m, doy - DaysBeforeMonth(y, m)>>

\* (pd.to_datetime(last_row['timestamp']) + pd.Timedelta(days=1)).dayofyear
TomorrowSameDay(ts) == DayOfYear(ToDatetime(ts))
TomorrowDayOfYear(ts) == DayOfYear(ToDatetime(ts) + 1)

Calendar == {ts \in Years \X (1..12) \X (1..31) : ts[3] <= DaysInMonth(ts[1], ts[2])}

(***************************************************************************)
(* Inputs: what the external collaborators may answer.                     *)
(***************************************************************************)
Delhi == <<28, 77>>
Mumbai == <<19, 72>>

\* Geocoding: a transport error, a body without 'results', an empty
\* 'results', or a list of matches of which the first is used.
GeoResponses ==
    {[exc |-> TRUE, hasResults |-> FALSE, results |-> <<>>],
     [exc |-> FALSE, hasResults |-> FALSE, results |-> <<>>],
     [exc |-> FALSE, hasResults |-> TRUE, results |-> <<>>],
     [exc |-> FALSE, hasResults |-> TRUE, results |-> <<Delhi>>],
     [exc |-> FALSE, hasResults |-> TRUE, results |-> <<Mumbai, Delhi>>]}

PmFields == {"time", "pm2_5"}
MetFields == {"time", "temperature_2m", "relative_humidity_2m", "windspeed_10m"}

\* A data endpoint: a transport error, a body without 'hourly', or an
\* 'hourly' object holding some of the arrays, each of n entries.
DataResponses(fields) ==
    {[exc |-> TRUE, hourly |-> FALSE, keys |-> {}, n |-> 0],
     [exc |-> FALSE, hourly |-> FALSE, keys |-> {}, n |-> 0]}
    \cup {[exc |-> FALSE, hourly |-> TRUE, keys |-> K, n |-> 0] : K \in SUBSET fields}
    \cup {[exc |-> FALSE, hourly |-> TRUE, keys |-> fields, n |-> 24]}

\* model.joblib: its 'features' list.
FeatureLists ==
    {AssembledCols,
     <<"dayofyear", "pm25_ma_3", "pm25_lag_7", "pm25_lag_3", "pm25_lag_2",
       "pm25_lag_1", "windspeed", "relativehumidity", "temperature">>,
     <<"temperature", "relativehumidity", "windspeed", "pm25_lag_1", "pm25_ma_3">>,
     Append(AssembledCols, "no2"),
     <<"temperature", "humidity", "windspeed", "pm25_lag_1", "pm25_lag_2",
       "pm25_lag_3", "pm25_lag_7", "pm25_ma_3", "dayofyear">>}

Artifacts == {NoArtifact} \cup FeatureLists

Pair(features) == [model |-> "regressor", features |-> features]

(***************************************************************************)
(* make_daily_features: one row per calendar day, sorted chronologically,  *)
(* with columns timestamp, pm25, temperature, relativehumidity, windspeed. *)
(***************************************************************************)
MkTable(last, pm, wx) ==
    [i \in 1..Len(pm) |->
        [timestamp |-> DateOfOrdinal(ToDatetime(last) - (Len(pm) - i)),
         pm25 |-> pm[i],
         temperature |-> wx[1],
         relativehumidity |-> wx[2],
         windspeed |-> wx[3]]]

Ramp(n) == [i \in 1..n |-> 40 + i]
Weather == <<25, 60, 8>>

\* The daily tables of the request specification: every length up to
\* MaxRows, a rising pm25 series, the last day at a year's or a month's end.
DailyTables ==
    {MkTable(last, Ramp(n), Weather) :
        n \in 0..MaxRows, last \in {<<2023, 12, 31>>, <<2024, 2, 28>>}}

(***************************************************************************)
(* The fetchers.                                                           *)
(***************************************************************************)
Msg(kind, text) == [kind |-> kind, text |-> text]
Call(ep, at, r) == [ep |-> ep, coords |-> at, resp |-> r]

\* get_city_coordinates: the (lat, lon) it returns; NoCoords is (None, None).
CoordinatesOrDefault(r) ==
    IF r.exc THEN NoCoords
    ELSE IF ~r.hasResults \/ r.results = <<>> THEN Delhi
    ELSE r.results[1]
GetCityCoordinates(r) ==
    IF r.exc THEN NoCoords
    ELSE IF ~r.hasResults \/ r.results = <<>> THEN NoCoords
    ELSE r.results[1]

\* get_city_coordinates: what it renders.
GeoMsgs(r) == IF r.exc THEN <<Msg("error", "Error fetching city coordinates")>> ELSE <<>>

\* fetch_pm25 after the coordinates are known: the frame's rows, or the
\* exception the construction of the frame raises.
PmFrame(r) ==
    IF r.exc THEN [rows |-> 0, raised |-> "none"]
    ELSE IF ~r.hourly \/ "pm2_5" \notin r.keys THEN [rows |-> 0, raised |-> "none"]
    ELSE IF "time" \notin r.keys THEN [rows |-> 0, raised |-> "KeyError"]
    ELSE [rows |-> r.n, raised |-> "none"]

\* fetch_weather after the coordinates are known.
MetFrame(r) ==
    IF r.exc THEN [rows |-> 0, raised |-> "none"]
    ELSE IF ~r.hourly
            \/ ~({"temperature_2m", "relative_humidity_2m", "windspeed_10m"} \subseteq r.keys)
         THEN [rows |-> 0, raised |-> "none"]
    ELSE IF "time" \notin r.keys THEN [rows |-> 0, raised |-> "KeyError"]
    ELSE [rows |-> r.n, raised |-> "none"]

(***************************************************************************)
(* The forecast assembler.                                                 *)
(***************************************************************************)
\* df_feats.iloc[-k]['pm25'] if len(df_feats) >= k else last_row['pm25']
LagShifted(df, k) ==
    IF Len(df) >= k + 1 THEN df[Len(df) - k].pm25 ELSE df[Len(df)].pm25
Lag(df, k) ==
    IF Len(df) >= k THEN df[Len(df) - k + 1].pm25 ELSE df[Len(df)].pm25

\* df_feats['pm25'].rolling(3).mean().iloc[-1]: a rational, NaN below 3 rows.
RollingMean3(df) ==
    IF Len(df) < 3 THEN [num |-> 0, den |-> 0]
    ELSE [num |-> df[Len(df)].pm25 + df[Len(df) - 1].pm25 + df[Len(df) - 2].pm25,
          den |-> 3]

AssembleRow(df) ==
    LET last_row == df[Len(df)]
    IN [temperature |-> last_row.temperature,
        relativehumidity |-> last_row.relativehumidity,
        windspeed |-> last_row.windspeed,
        pm25_lag_1 |-> last_row.pm25,
        pm25_lag_2 |-> Lag(df, 2),
        pm25_lag_3 |-> Lag(df, 3),
        pm25_lag_7 |-> Lag(df, 7),
        pm25_ma_3 |-> RollingMean3(df),
        dayofyear |-> TomorrowDayOfYear(last_row.timestamp)]

\* pd.DataFrame([X_pred])[feature_cols]: the named columns in the order of
\* the list; a name that is no column raises KeyError.
SelectKnown(X, cols) ==
    LET known == SelectSeq(cols, LAMBDA c : c \in DOMAIN X)
    IN [raised |-> "none", frame |-> [i \in 1..Len(known) |-> <<known[i], X[known[i]]>>]]
SelectColumns(X, cols) ==
    IF \E i \in 1..Len(cols) : cols[i] \notin DOMAIN X
    THEN [raised |-> "KeyError", frame |-> NoFrame]
    ELSE [raised |-> "none", frame |-> [i \in 1..Len(cols) |-> <<cols[i], X[cols[i]]>>]]

\* len(df_feats) < 10
TooFewRowsOff(df) == Len(df) < MinDailyRows - 1
TooFewRows(df) == Len(df) < MinDailyRows

(***************************************************************************)
(* The state after construction: the script has rendered the page and      *)
(* waits for the button.                                                   *)
(***************************************************************************)
Fresh ==
    /\ httpLog = <<>>
    /\ coords = NoCoords
    /\ pm_df = 0
    /\ met_df = 0
    /\ df_feats = <<>>
    /\ feature_cols = <<>>
    /\ X_pred = NoRow
    /\ X_pred_df = NoFrame
    /\ calls = <<>>
    /\ msgs = <<>>
    /\ raised = "none"
    /\ outcome = "none"

Init ==
    /\ pc = "idle"
    /\ requests = 0
    /\ artifact \in Artifacts
    /\ cache = NoModel
    /\ loads = <<>>
    /\ loadCalls = 0
    /\ Fresh

(***************************************************************************)
(* The handler of the button, step by step.                                *)
(***************************************************************************)
\* if st.button(...): the script reruns from the top with fresh locals.
Press ==
    /\ pc = "idle"
    /\ requests < MaxRequests
    /\ requests' = requests + 1
    /\ pc' = "pm_geo"
    /\ httpLog' = <<>>
    /\ coords' = NoCoords
    /\ pm_df' = 0
    /\ met_df' = 0
    /\ df_feats' = <<>>
    /\ feature_cols' = <<>>
    /\ X_pred' = NoRow
    /\ X_pred_df' = NoFrame
    /\ calls' = <<"fetch_pm25">>
    /\ msgs' = <<>>
    /\ raised' = "none"
    /\ outcome' = "none"
    /\ UNCHANGED procVars

\* An uncaught exception ends the script run; Streamlit shows it.
Raise(exc) ==
    /\ raised' = exc
    /\ outcome' = "exception"
    /\ pc' = "idle"

\* fetch_pm25: lat, lon = get_city_coordinates(city); if lat is None: return
PmGeocode(r) ==
    /\ pc = "pm_geo"
    /\ httpLog' = Append(httpLog, Call("geocoding", NoCoords, r))
    /\ msgs' = msgs \o GeoMsgs(r)
    /\ coords' = GetCityCoordinates(r)
    /\ pc' = IF coords' = NoCoords THEN "pm_ret" ELSE "pm_get"
    /\ pm_df' = 0
    /\ UNCHANGED <<requests, procVars, met_df, predVars, calls, raised, outcome>>

\* fetch_pm25: the air-quality request and the frame built from its answer.
PmGet(r) ==
    /\ pc = "pm_get"
    /\ httpLog' = Append(httpLog, Call("air-quality", coords, r))
    /\ msgs' = IF r.exc THEN Append(msgs, Msg("error", "Error fetching PM2.5 data")) ELSE msgs
    /\ pm_df' = PmFrame(r).rows
    /\ IF PmFrame(r).raised # "none"
       THEN Raise(PmFrame(r).raised)
       ELSE pc' = "pm_ret" /\ UNCHANGED <<raised, outcome>>
    /\ UNCHANGED <<requests, procVars, coords, met_df, predVars, calls>>

\* if pm_df.empty: st.error(...) else: fetch_weather(...)
PmReturnUnchecked ==
    /\ pc = "pm_ret"
    /\ pc' = "met_geo"
    /\ calls' = Append(calls, "fetch_weather")
    /\ UNCHANGED <<requests, procVars, fetchVars, predVars, msgs, raised, outcome>>
PmReturn ==
    /\ pc = "pm_ret"
    /\ IF pm_df = 0
       THEN /\ msgs' = Append(msgs, Msg("error", "No PM2.5 data found"))
            /\ outcome' = "error"
            /\ pc' = "idle"
            /\ UNCHANGED calls
       ELSE /\ pc' = "met_geo"
            /\ calls' = Append(calls, "fetch_weather")
            /\ UNCHANGED <<msgs, outcome>>
    /\ UNCHANGED <<requests, procVars, fetchVars, predVars, raised>>

\* fetch_weather: lat, lon = get_city_coordinates(city); if lat is None: return
MetGeocode(r) ==
    /\ pc = "met_geo"
    /\ httpLog' = Append(httpLog, Call("geocoding", NoCoords, r))
    /\ msgs' = msgs \o GeoMsgs(r)
    /\ coords' = GetCityCoordinates(r)
    /\ pc' = IF coords' = NoCoords THEN "met_ret" ELSE "met_get"
    /\ met_df' = 0
    /\ UNCHANGED <<requests, procVars, pm_df, predVars, calls, raised, outcome>>

\* fetch_weather: the archive request and the frame built from its answer.
MetGet(r) ==
    /\ pc = "met_get"
    /\ httpLog' = Append(httpLog, Call("archive", coords, r))
    /\ msgs' = IF r.exc THEN Append(msgs, Msg("error", "Error fetching weather data")) ELSE msgs
    /\ met_df' = MetFrame(r).rows
    /\ IF MetFrame(r).raised # "none"
       THEN Raise(MetFrame(r).raised)
       ELSE pc' = "met_ret" /\ UNCHANGED <<raised, outcome>>
    /\ UNCHANGED <<requests, procVars, coords, pm_df, predVars, calls>>

\* if met_df.empty: st.error("Couldn't fetch meteorology.") else: ...
MetReturn ==
    /\ pc = "met_ret"
    /\ IF met_df = 0
       THEN /\ msgs' = Append(msgs, Msg("error", "Couldn't fetch meteorology."))
            /\ outcome' = "error"
            /\ pc' = "idle"
       ELSE /\ pc' = "features"
            /\ UNCHANGED <<msgs, outcome>>
    /\ UNCHANGED <<requests, procVars, fetchVars, predVars, calls, raised>>

\* df_feats = make_daily_features(pm_df, met_df).reset_index(), and the
\* check of its length.
MakeDailyFeatures(t) ==
    /\ pc = "features"
    /\ df_feats' = t
    /\ calls' = Append(calls, "make_daily_features")
    /\ IF TooFewRows(t)
       THEN /\ msgs' = Append(msgs, Msg("warning", "Not enough daily rows"))
            /\ outcome' = "warning"
            /\ pc' = "idle"
       ELSE /\ pc' = "load"
            /\ UNCHANGED <<msgs, outcome>>
    /\ UNCHANGED <<requests, procVars, fetchVars, feature_cols, X_pred, X_pred_df,
                   raised>>

\* model, feature_cols = load_model(): st.cache_resource returns the cached
\* pair; on a miss it runs joblib.load and caches what it returns.  A load
\* that raises caches nothing.
LoadModelUncached ==
    /\ pc = "load"
    /\ calls' = Append(calls, "load_model")
    /\ loadCalls' = loadCalls + 1
    /\ IF artifact = NoArtifact
       THEN /\ Raise("FileNotFoundError")
            /\ UNCHANGED <<cache, loads, feature_cols>>
       ELSE /\ cache' = Pair(artifact)
            /\ loads' = Append(loads, requests)
            /\ feature_cols' = artifact
            /\ pc' = "assemble"
            /\ UNCHANGED <<raised, outcome>>
    /\ UNCHANGED <<requests, artifact, fetchVars, df_feats, X_pred, X_pred_df, msgs>>
LoadModelSwallow ==
    /\ pc = "load"
    /\ calls' = Append(calls, "load_model")
    /\ loadCalls' = loadCalls + 1
    /\ feature_cols' = IF artifact = NoArtifact THEN <<>> ELSE artifact
    /\ cache' = IF artifact = NoArtifact THEN cache ELSE Pair(artifact)
    /\ loads' = IF artifact = NoArtifact THEN loads ELSE Append(loads, requests)
    /\ pc' = "assemble"
    /\ UNCHANGED <<requests, artifact, fetchVars, df_feats, X_pred, X_pred_df, msgs,
                   raised, outcome>>
LoadModel ==
    /\ pc = "load"
    /\ calls' = Append(calls, "load_model")
    /\ IF cache # NoModel
       THEN /\ feature_cols' = cache.features
            /\ pc' = "assemble"
            /\ UNCHANGED <<cache, loads, loadCalls, raised, outcome>>
       ELSE /\ loadCalls' = loadCalls + 1
            /\ IF artifact = NoArtifact
               THEN /\ Raise("FileNotFoundError")
                    /\ UNCHANGED <<cache, loads, feature_cols>>
               ELSE /\ cache' = Pair(artifact)
                    /\ loads' = Append(loads, requests)
                    /\ feature_cols' = artifact
                    /\ pc' = "assemble"
                    /\ UNCHANGED <<raised, outcome>>
    /\ UNCHANGED <<requests, artifact, fetchVars, df_feats, X_pred, X_pred_df, msgs>>

\* last_row = df_feats.iloc[-1].copy(); X_pred = {...}
Assemble ==
    /\ pc = "assemble"
    /\ X_pred' = AssembleRow(df_feats)
    /\ pc' = "select"
    /\ UNCHANGED <<requests, procVars, fetchVars, df_feats, feature_cols, X_pred_df,
                   calls, msgs, raised, outcome>>

\* X_pred_df = pd.DataFrame([X_pred])[feature_cols]
\* y_pred = model.predict(X_pred_df)[0]
SelectAndPredict ==
    /\ pc = "select"
    /\ LET sel == SelectColumns(X_pred, feature_cols)
       IN IF sel.raised # "none"
          THEN /\ Raise(sel.raised)
               /\ UNCHANGED <<X_pred_df, calls>>
          ELSE /\ X_pred_df' = sel.frame
               /\ calls' = Append(calls, "model.predict")
               /\ pc' = "render"
               /\ UNCHANGED <<raised, outcome>>
    /\ UNCHANGED <<requests, procVars, fetchVars, df_feats, feature_cols, X_pred, msgs>>

\* st.write, st.success, st.line_chart, st.download_button
Render ==
    /\ pc = "render"
    /\ msgs' = msgs \o <<Msg("write", "Latest observed daily PM2.5"),
                         Msg("success", "Predicted next day's PM2.5"),
                         Msg("line_chart", "pm25"),
                         Msg("download_button", "daily_features.csv")>>
    /\ outcome' = "forecast"
    /\ pc' = "idle"
    /\ UNCHANGED <<requests, procVars, fetchVars, predVars, calls, raised>>

Next ==
    \/ Press
    \/ \E r \in GeoResponses : PmGeocode(r)
    \/ \E r \in DataResponses(PmFields) : PmGet(r)
    \/ PmReturn
    \/ \E r \in GeoResponses : MetGeocode(r)
    \/ \E r \in DataResponses(MetFields) : MetGet(r)
    \/ MetReturn
    \/ \E t \in DailyTables : MakeDailyFeatures(t)
    \/ LoadModel
    \/ Assemble
    \/ SelectAndPredict
    \/ Render

Spec == Init /\ [][Next]_vars

(***************************************************************************)
(* The forecast assembler on its own: the script stands before the         *)
(* assembly, in the first request of a process whose artifact declares the *)
(* assembled columns, with a daily table drawn from a set of inputs.       *)
(***************************************************************************)
OkGeo == [exc |-> FALSE, hasResults |-> TRUE, results |-> <<Delhi>>]
OkData(fields) == [exc |-> FALSE, hourly |-> TRUE, keys |-> fields, n |-> 24]

AtAssemble(tables) ==
    /\ pc = "assemble"
    /\ requests = 1
    /\ artifact = AssembledCols
    /\ cache = Pair(AssembledCols)
    /\ loads = <<1>>
    /\ loadCalls = 1
    /\ httpLog = <<Call("geocoding", NoCoords, OkGeo),
                   Call("air-quality", Delhi, OkData(PmFields)),
                   Call("geocoding", NoCoords, OkGeo),
                   Call("archive", Delhi, OkData(MetFields))>>
    /\ coords = Delhi
    /\ pm_df = 24
    /\ met_df = 24
    /\ df_feats \in tables
    /\ feature_cols = AssembledCols
    /\ X_pred = NoRow
    /\ X_pred_df = NoFrame
    /\ calls = <<"fetch_pm25", "fetch_weather", "make_daily_features", "load_model">>
    /\ msgs = <<>>
    /\ raised = "none"
    /\ outcome = "none"

NextAssembler == Assemble \/ SelectAndPredict \/ Render

\* Every pm25 series over two values, of every length that passes the
\* check of the row count.
BinarySeries(n) == {[i \in 1..n |-> 40 + 10 * b[i]] : b \in [1..n -> {0, 1}]}
LagTables ==
    UNION {{MkTable(<<2024, 3, 10>>, pm, Weather) : pm \in BinarySeries(n)} :
              n \in MinDailyRows..MaxRows}
InitLag == AtAssemble(LagTables)
SpecLag == InitLag /\ [][NextAssembler]_vars

\* Every last day of the calendar.
DateTables == {MkTable(last, Ramp(MinDailyRows), Weather) : last \in Calendar}
InitDate == AtAssemble(DateTables)
SpecDate == InitDate /\ [][NextAssembler]_vars

(***************************************************************************)
(* Properties.                                                             *)
(***************************************************************************)
Called(f) == \E i \in 1..Len(calls) : calls[i] = f
Rendered(kind) == \E i \in 1..Len(msgs) : msgs[i].kind = kind
Contacted(ep) == \E i \in 1..Len(httpLog) : httpLog[i].ep = ep
Finished == pc = "idle" /\ requests > 0
ForecastShown ==
    Rendered("success") \/ Rendered("line_chart") \/ Rendered("download_button")

\* C1: a request whose daily table has fewer than 10 rows neither loads nor
\* invokes the model, renders no forecast, chart or download, and shows a
\* warning; model.predict is invoked only in a request whose daily table has
\* at least 10 rows.
C1_FewRowsNoPrediction ==
    /\ (Called("make_daily_features") /\ Len(df_feats) < 10) =>
          /\ ~Called("load_model")
          /\ ~Called("model.predict")
          /\ ~ForecastShown
          /\ Rendered("warning")
          /\ Finished /\ outcome = "warning"
    /\ Called("model.predict") => Len(df_feats) >= 10

C1_Witness == Called("make_daily_features") /\ Len(df_feats) = 9 /\ outcome = "warning"

\* The request has passed the selection of the model's columns.
PastSelection ==
    \/ pc = "render"
    \/ Finished /\ outcome = "forecast"
    \/ Finished /\ outcome = "exception" /\ raised = "KeyError" /\ Called("load_model")

FrameNames == [i \in 1..Len(X_pred_df) |-> X_pred_df[i][1]]

\* C2 as stated: past the selection, a feature list whose set of names
\* differs from the nine assembled columns has failed the request without
\* a prediction, and a prediction was made only with equal sets, in the
\* model's order.
C2_ExactColumnsOrFail ==
    PastSelection =>
        IF Range(feature_cols) = Range(AssembledCols)
        THEN Called("model.predict") /\ FrameNames = feature_cols
        ELSE ~Called("model.predict") /\ outcome = "exception" /\ ~ForecastShown

\* C2 amended: past the selection, a feature list that names a column the
\* assembled row does not hold has failed the request (KeyError) without a
\* prediction; otherwise model.predict was invoked on exactly the declared
\* columns in the declared order, the undeclared assembled columns dropped.
C2_DeclaredSubsetOrFail ==
    PastSelection =>
        IF Range(feature_cols) \subseteq Range(AssembledCols)
        THEN Called("model.predict") /\ FrameNames = feature_cols
        ELSE /\ ~Called("model.predict")
             /\ Finished /\ outcome = "exception" /\ raised = "KeyError"
             /\ ~ForecastShown

C2_Witness ==
    /\ Finished /\ outcome = "forecast"
    /\ Range(feature_cols) # Range(AssembledCols)
    /\ FrameNames = feature_cols

\* The geocoding service answered with no match.
NoMatch(r) == ~r.exc /\ (~r.hasResults \/ r.results = <<>>)

\* C3: after a geocoding answer without a match, the fetcher that asked has
\* returned an empty table and the request sends no further HTTP request;
\* when the first answer is such, no data endpoint is contacted, and no
\* forecast is produced.
C3_NoMatchNoDataCall ==
    \A i \in 1..Len(httpLog) :
        (httpLog[i].ep = "geocoding" /\ NoMatch(httpLog[i].resp)) =>
            /\ i = Len(httpLog)
            /\ pc \in {"pm_ret", "met_ret", "idle"}
            /\ IF i = 1 THEN pm_df = 0 ELSE met_df = 0
            /\ i = 1 => ~Contacted("air-quality") /\ ~Contacted("archive")
            /\ ~Called("model.predict") /\ ~ForecastShown
            /\ Finished => outcome = "error"

C3_Witness ==
    /\ Finished /\ outcome = "error"
    /\ Len(httpLog) = 1 /\ NoMatch(httpLog[1].resp)
    /\ pm_df = 0 /\ ~Called("fetch_weather")

\* The fields a data endpoint is asked for.
Expected(ep) == IF ep = "air-quality" THEN PmFields ELSE MetFields
FieldAbsent(c) == ~c.resp.exc /\ (~c.resp.hourly \/ ~(Expected(c.ep) \subseteq c.resp.keys))

\* C4: a data payload in which an expected field is absent makes the
\* fetcher return an empty table, without an exception.
C4_AbsentFieldEmptyTable ==
    \A i \in 1..Len(httpLog) :
        (httpLog[i].ep \in {"air-quality", "archive"} /\ FieldAbsent(httpLog[i])) =>
            /\ raised = "none"
            /\ IF httpLog[i].ep = "air-quality" THEN pm_df = 0 ELSE met_df = 0

\* C5: a failed HTTP call is the last HTTP call of its request; an error
\* message is shown and no forecast is produced.
C5_NoRetryAfterFailure ==
    \A i \in 1..Len(httpLog) :
        httpLog[i].resp.exc =>
            /\ i = Len(httpLog)
            /\ Rendered("error")
            /\ pc \in {"pm_ret", "met_ret", "idle"}
            /\ ~Called("model.predict") /\ ~ForecastShown
            /\ Finished => outcome = "error"

C5_Witness ==
    /\ Finished /\ outcome = "error"
    /\ Len(httpLog) = 3 /\ httpLog[3].resp.exc

\* C7: the artifact is loaded at most once per process, by the first
\* request that calls load_model; later requests get the cached pair, and
\* the cached pair is what was loaded.
C7_LoadedAtMostOnce ==
    /\ Len(loads) <= 1
    /\ artifact # NoArtifact => loadCalls = Len(loads)
    /\ cache = (IF loads = <<>> THEN NoModel ELSE Pair(artifact))
    /\ (Called("load_model") /\ artifact # NoArtifact) =>
          /\ Len(loads) = 1
          /\ feature_cols = cache.features
    /\ (loads # <<>> /\ ~Called("load_model")) => loads[1] < requests

C7_Witness ==
    /\ loads = <<1>> /\ requests = 2
    /\ Finished /\ outcome = "forecast"
    /\ feature_cols = cache.features

\* C8 as stated: in a process whose artifact is missing no request
\* completes with an error message, a warning or a forecast.
C8_MissingArtifactNoRequest ==
    artifact = NoArtifact => ~(Finished /\ outcome \in {"error", "warning", "forecast"})

\* C8 amended: a missing artifact is fatal to each request that calls
\* load_model, and only to those: the request ends there with the exception,
\* nothing is cached and no forecast is ever produced, every such request
\* tries the load again, and a request that ends before the load ends as it
\* does with the artifact present: with its error message, its warning, or
\* the KeyError of a fetcher.
C8_MissingArtifactFailsAtLoad ==
    artifact = NoArtifact =>
        /\ cache = NoModel /\ loads = <<>>
        /\ ~Called("model.predict") /\ ~ForecastShown
        /\ Called("load_model") =>
              Finished /\ outcome = "exception" /\ raised = "FileNotFoundError"
        /\ (Finished /\ ~Called("load_model")) =>
              \/ outcome \in {"error", "warning"} /\ raised = "none"
              \/ outcome = "exception" /\ raised = "KeyError"
        /\ loadCalls <= requests

C8_Witness ==
    /\ artifact = NoArtifact
    /\ requests = 2 /\ loadCalls = 2
    /\ Finished /\ raised = "FileNotFoundError"

\* The coordinates sent to a data endpoint in this request.
SentTo(ep) == {httpLog[i].coords : i \in {j \in 1..Len(httpLog) : httpLog[j].ep = ep}}

\* C10: a request that produces a forecast fetched the PM2.5 series and the
\* weather series for the same coordinates.
C10_SameCoordinates ==
    (Finished /\ outcome = "forecast") => SentTo("air-quality") = SentTo("archive")

\* The request has assembled X_pred.
Assembled ==
    \/ pc \in {"select", "render"}
    \/ Finished /\ Called("load_model") /\ raised # "FileNotFoundError"

LastRow == df_feats[Len(df_feats)]

\* C6 as stated: pm25_lag_7 is the pm25 of the row 7 rows before the last
\* row, and pm25_lag_1 the pm25 of the last row.
C6_LagSevenRowsBeforeLast ==
    (Assembled /\ Len(df_feats) >= 7) =>
        /\ X_pred.pm25_lag_7 = df_feats[Len(df_feats) - 7].pm25
        /\ X_pred.pm25_lag_1 = LastRow.pm25

\* C6 amended: pm25_lag_7 is the pm25 of the 7th row counted back from the
\* end with the last row counted as the 1st, which is 6 rows before the
\* last row; pm25_lag_1 is the pm25 of the last row.
C6_LagSeventhFromLast ==
    (Assembled /\ Len(df_feats) >= 7) =>
        /\ X_pred.pm25_lag_7 = df_feats[Len(df_feats) - 6].pm25
        /\ X_pred.pm25_lag_1 = LastRow.pm25

C6_Witness ==
    /\ Assembled
    /\ df_feats[Len(df_feats) - 6].pm25 # df_feats[Len(df_feats) - 7].pm25
    /\ df_feats[Len(df_feats) - 6].pm25 # LastRow.pm25
    /\ X_pred.pm25_lag_7 = df_feats[Len(df_feats) - 6].pm25

\* The calendar day after a date, and a date's position in its year, by
\* counting the days of the calendar.
NextCalendarDay(ts) ==
    IF ts[3] < DaysInMonth(ts[1], ts[2]) THEN <<ts[1], ts[2], ts[3] + 1>>
    ELSE IF ts[2] < 12 THEN <<ts[1], ts[2] + 1, 1>>
    ELSE <<ts[1] + 1, 1, 1>>

OrdinalInYear(ts) ==
    Cardinality({x \in (1..12) \X (1..31) :
                    /\ x[2] <= DaysInMonth(ts[1], x[1])
                    /\ (x[1] < ts[2] \/ (x[1] = ts[2] /\ x[2] <= ts[3]))})

\* C9: the assembled dayofyear is the position in its year of the calendar
\* day after the last row's date: 1 after a Dec 31, and always in 1..366.
C9_DayOfYearOfTomorrow ==
    Assembled =>
        /\ X_pred.dayofyear = OrdinalInYear(NextCalendarDay(LastRow.timestamp))
        /\ X_pred.dayofyear \in 1..366
        /\ (LastRow.timestamp[2] = 12 /\ LastRow.timestamp[3] = 31) => X_pred.dayofyear = 1

C9_Witness ==
    /\ Assembled
    /\ LastRow.timestamp = <<2024, 12, 31>>
    /\ X_pred.dayofyear = 1

====
